---- MODULE Spec2Model ----
(***************************************************************************)
(* The span algebra of cab-text (span.rs) and the kind classification of   *)
(* cab-syntax (kind.rs).  Both are pure value types: the state is a pair   *)
(* of span registers held by a caller, together with a record of the last  *)
(* call (operation, operands, outcome).                                    *)
(***************************************************************************)
EXTENDS Integers, Sequences, FiniteSets

\* Width of the Size scalar in the model (the program's Size wraps a u32).
SizeBits == 3

\* Largest offset or length a caller passes to a constructor.
MaxOffset == 4

Modulus == 2 ^ SizeBits

Size == 0 .. (Modulus - 1)

Offsets == 0 .. MaxOffset

\* a: the caller's current span; b: the caller's previous span;
\* op, args, ret: name, operands and outcome of the last call.
VARIABLES a, b, op, args, ret

vars == <<a, b, op, args, ret>>

----------------------------------------------------------------------------
\* Outcomes of a call: it returns a value, or the thread panics.

Returned(v) == <<v>>

Panicked == <<>>

\* Option<Span>
Some(s) == <<s>>

None == <<>>

----------------------------------------------------------------------------
\* Size arithmetic: u32 addition and subtraction.  On overflow a build with
\* overflow checks panics and a build without them wraps.

SizeAdd(x, y) ==
    IF x + y < Modulus
    THEN {Returned(x + y)}
    ELSE {Panicked, Returned((x + y) % Modulus)}

SizeSub(x, y) ==
    IF x >= y
    THEN {Returned(x - y)}
    ELSE {Panicked, Returned((x - y + Modulus) % Modulus)}

\* std::cmp::max and std::cmp::min
cmp_max(v1, v2) == IF v1 > v2 THEN v1 ELSE v2

cmp_min(v1, v2) == IF v1 > v2 THEN v2 ELSE v1

----------------------------------------------------------------------------
\* Span

Span == [start : Size, end : Size]

new(start, end) == [start |-> start, end |-> end]

at(start, len) ==
    { IF r = Panicked THEN Panicked ELSE Returned(new(start, r[1])) :
        r \in SizeAdd(start, len) }

at_end(end, len) ==
    { IF r = Panicked THEN Panicked ELSE Returned(new(r[1], end)) :
        r \in SizeSub(end, len) }

empty(start) == new(start, start)

up_to(end) == new(0, end)

len(self) == SizeSub(self.start, self.end)

is_empty(self) == self.start = self.end

\* contains with the upper bound compared by <= instead of <.
contains_closed_end(self, that) ==
    self.start <= that.start /\ that.end <= self.end

contains(self, that) == self.start <= that.start /\ that.end < self.end

contains_offset(self, offset) == contains(self, empty(offset))

\* intersect with the comparison of the two computed bounds inverted.
intersect_inverted(self, that) ==
    LET start == cmp_max(self.start, that.start)
        end   == cmp_min(self.end, that.end)
    IN  IF start >= end THEN Some(new(start, end)) ELSE None

\* intersect without the comparison of the two computed bounds.
intersect_unchecked(self, that) ==
    LET start == cmp_max(self.start, that.start)
        end   == cmp_min(self.end, that.end)
    IN  Some(new(start, end))

intersect(self, that) ==
    LET start == cmp_max(self.start, that.start)
        end   == cmp_min(self.end, that.end)
    IN  IF end >= start THEN Some(new(start, end)) ELSE None

\* cover that keeps the receiver's start instead of the smaller start.
cover_keeps_start(self, that) ==
    LET start == self.start
        end   == cmp_max(self.end, that.end)
    IN  new(start, end)

\* cover with min and max exchanged.
cover_swapped(self, that) ==
    LET start == cmp_max(self.start, that.start)
        end   == cmp_min(self.end, that.end)
    IN  new(start, end)

cover(self, that) ==
    LET start == cmp_min(self.start, that.start)
        end   == cmp_max(self.end, that.end)
    IN  new(start, end)

----------------------------------------------------------------------------
\* The caller: every call is recorded; a span it produces becomes the
\* caller's current span `a`, and the previous one is kept as `b`.

Init ==
    /\ a = empty(0)
    /\ b = empty(0)
    /\ op = "init"
    /\ args = <<>>
    /\ ret = Panicked

Call(name, operands, outcome) ==
    /\ op' = name
    /\ args' = operands
    /\ ret' = outcome

Keep(s) ==
    /\ a' = s
    /\ b' = a

New(start, end) ==
    /\ Call("new", <<start, end>>, Returned(new(start, end)))
    /\ Keep(new(start, end))

At(start, l) ==
    \E r \in at(start, l) :
        /\ Call("at", <<start, l>>, r)
        /\ IF r = Panicked THEN UNCHANGED <<a, b>> ELSE Keep(r[1])

AtEnd(end, l) ==
    \E r \in at_end(end, l) :
        /\ Call("at_end", <<end, l>>, r)
        /\ IF r = Panicked THEN UNCHANGED <<a, b>> ELSE Keep(r[1])

Empty(start) ==
    /\ Call("empty", <<start>>, Returned(empty(start)))
    /\ Keep(empty(start))

UpTo(end) ==
    /\ Call("up_to", <<end>>, Returned(up_to(end)))
    /\ Keep(up_to(end))

SpanLen ==
    \E r \in len(a) :
        /\ Call("len", <<a>>, r)
        /\ UNCHANGED <<a, b>>

IsEmpty ==
    /\ Call("is_empty", <<a>>, Returned(is_empty(a)))
    /\ UNCHANGED <<a, b>>

Contains ==
    /\ Call("contains", <<a, b>>, Returned(contains(a, b)))
    /\ UNCHANGED <<a, b>>

ContainsOffset(offset) ==
    /\ Call("contains_offset", <<a, offset>>, Returned(contains_offset(a, offset)))
    /\ UNCHANGED <<a, b>>

Intersect ==
    LET r == intersect(a, b)
    IN  /\ Call("intersect", <<a, b>>, Returned(r))
        /\ IF r = None THEN UNCHANGED <<a, b>> ELSE Keep(r[1])

Cover ==
    /\ Call("cover", <<a, b>>, Returned(cover(a, b)))
    /\ Keep(cover(a, b))

Next ==
    \/ \E start, end \in Offsets : New(start, end)
    \/ \E start, l \in Offsets : At(start, l)
    \/ \E end, l \in Offsets : AtEnd(end, l)
    \/ \E start \in Offsets : Empty(start)
    \/ \E end \in Offsets : UpTo(end)
    \/ SpanLen
    \/ IsEmpty
    \/ Contains
    \/ \E offset \in Size : ContainsOffset(offset)
    \/ Intersect
    \/ Cover

Spec == Init /\ [][Next]_vars

\* The same caller, passing the constructors only arguments that meet their
\* documented precondition: start <= end, no overflow, len <= end.

LegitNew(start, end) == start <= end /\ New(start, end)

LegitAt(start, l) == start + l < Modulus /\ At(start, l)

LegitAtEnd(end, l) == l <= end /\ AtEnd(end, l)

NextLegit ==
    \/ \E start, end \in Offsets : LegitNew(start, end)
    \/ \E start, l \in Offsets : LegitAt(start, l)
    \/ \E end, l \in Offsets : LegitAtEnd(end, l)
    \/ \E start \in Offsets : Empty(start)
    \/ \E end \in Offsets : UpTo(end)
    \/ SpanLen
    \/ IsEmpty
    \/ Contains
    \/ \E offset \in Size : ContainsOffset(offset)
    \/ Intersect
    \/ Cover

SpecLegit == Init /\ [][NextLegit]_vars

----------------------------------------------------------------------------
\* Kind: the enumeration, in declaration order (tokens first, then nodes).

TokenKinds == <<
    "TOKEN_ERROR", "TOKEN_WHITESPACE", "TOKEN_COMMENT", "TOKEN_LESS_PIPE",
    "TOKEN_PIPE_MORE", "TOKEN_AT", "TOKEN_LEFT_PARENTHESIS",
    "TOKEN_RIGHT_PARENTHESIS", "TOKEN_PLUS_PLUS", "TOKEN_LEFT_BRACKET",
    "TOKEN_RIGHT_BRACKET", "TOKEN_EQUAL_EQUAL_MORE",
    "TOKEN_LESS_EQUAL_EQUAL", "TOKEN_SLASH_SLASH", "TOKEN_PERIOD",
    "TOKEN_LEFT_CURLYBRACE", "TOKEN_RIGHT_CURLYBRACE", "TOKEN_QUESTIONMARK",
    "TOKEN_SEMICOLON", "TOKEN_EXCLAMATION_EQUAL", "TOKEN_EQUAL_EQUAL",
    "TOKEN_EQUAL", "TOKEN_LESS_EQUAL", "TOKEN_LESS", "TOKEN_MORE_EQUAL",
    "TOKEN_MORE", "TOKEN_MINUS_MORE", "TOKEN_COMMA", "TOKEN_COLON",
    "TOKEN_PLUS", "TOKEN_MINUS", "TOKEN_ASTERISK_ASTERISK", "TOKEN_ASTERISK",
    "TOKEN_SLASH", "TOKEN_INTEGER", "TOKEN_FLOAT", "TOKEN_LITERAL_IF",
    "TOKEN_LITERAL_THEN", "TOKEN_LITERAL_ELSE", "TOKEN_LITERAL_AND",
    "TOKEN_LITERAL_OR", "TOKEN_LITERAL_NOT", "TOKEN_INTERPOLATION_START",
    "TOKEN_INTERPOLATION_END", "TOKEN_PATH", "TOKEN_CONTENT",
    "TOKEN_IDENTIFIER", "TOKEN_IDENTIFIER_START", "TOKEN_IDENTIFIER_END",
    "TOKEN_STRING_START", "TOKEN_STRING_END", "TOKEN_ISLAND_START",
    "TOKEN_ISLAND_END" >>

NodeKinds == <<
    "NODE_ROOT", "NODE_ERROR", "NODE_APPLICATION", "NODE_PREFIX_OPERATION",
    "NODE_INFIX_OPERATION", "NODE_PARENTHESIS", "NODE_LIST",
    "NODE_ATTRIBUTE_SET", "NODE_ATTRIBUTE", "NODE_ATTRIBUTE_PATH",
    "NODE_ATTRIBUTE_INHERIT", "NODE_ATTRIBUTE_SELECT",
    "NODE_ATTRIBUTE_CHECK", "NODE_BIND", "NODE_LAMBDA",
    "NODE_LAMBDA_PARAMETER_IDENTIFIER", "NODE_LAMBDA_PARAMETER_PATTERN",
    "NODE_LAMBDA_PARAMETER_PATTERN_ATTRIBUTE", "NODE_INTERPOLATION",
    "NODE_PATH", "NODE_IDENTIFIER", "NODE_STRING", "NODE_ISLAND",
    "NODE_NUMBER", "NODE_IF_ELSE" >>

Kinds == TokenKinds \o NodeKinds

Kind == { Kinds[i] : i \in 1 .. Len(Kinds) }

\* From<Kind> for rowan::SyntaxKind: the ordinal of the variant, as a u16.
SyntaxKind(kind) == (CHOOSE i \in 1 .. Len(Kinds) : Kinds[i] = kind) - 1

\* is_argument that lists the closing parenthesis instead of the opening one.
is_argument_closing(self) ==
    self \in { "TOKEN_ERROR",
               "TOKEN_RIGHT_PARENTHESIS",
               "TOKEN_LEFT_BRACKET",
               "TOKEN_LEFT_CURLYBRACE",
               "TOKEN_INTEGER",
               "TOKEN_FLOAT",
               "TOKEN_PATH",
               "TOKEN_IDENTIFIER",
               "TOKEN_IDENTIFIER_START",
               "TOKEN_STRING_START",
               "TOKEN_ISLAND_START" }

is_argument(self) ==
    self \in { "TOKEN_ERROR",
               "TOKEN_LEFT_PARENTHESIS",
               "TOKEN_LEFT_BRACKET",
               "TOKEN_LEFT_CURLYBRACE",
               "TOKEN_INTEGER",
               "TOKEN_FLOAT",
               "TOKEN_PATH",
               "TOKEN_IDENTIFIER",
               "TOKEN_IDENTIFIER_START",
               "TOKEN_STRING_START",
               "TOKEN_ISLAND_START" }

\* is_trivia that also skips the error token.
is_trivia_with_error(self) ==
    self \in { "TOKEN_COMMENT", "TOKEN_WHITESPACE", "TOKEN_ERROR" }

is_trivia(self) == self \in { "TOKEN_COMMENT", "TOKEN_WHITESPACE" }

IsArgument(kind) ==
    /\ Call("is_argument", <<kind>>, Returned(is_argument(kind)))
    /\ UNCHANGED <<a, b>>

IsTrivia(kind) ==
    /\ Call("is_trivia", <<kind>>, Returned(is_trivia(kind)))
    /\ UNCHANGED <<a, b>>

IntoSyntaxKind(kind) ==
    /\ Call("into_syntax_kind", <<kind>>, Returned(SyntaxKind(kind)))
    /\ UNCHANGED <<a, b>>

NextKind ==
    \/ \E kind \in Kind : IsArgument(kind)
    \/ \E kind \in Kind : IsTrivia(kind)
    \/ \E kind \in Kind : IntoSyntaxKind(kind)

SpecKind == Init /\ [][NextKind]_vars

----------------------------------------------------------------------------
\* Properties

WellFormed(s) == s.start <= s.end

Least(S) == CHOOSE x \in S : \A y \in S : x <= y

Greatest(S) == CHOOSE x \in S : \A y \in S : y <= x

\* C1: for every span s with s.start <= s.end, s.len() returns
\* s.end - s.start, the number of positions covered, and does not underflow.
C1_LenIsWidth ==
    (op = "len" /\ WellFormed(args[1]))
        => ret = Returned(args[1].end - args[1].start)

\* C2: for spans a and b with start <= end, a.contains(b) is true exactly
\* when a.start <= b.start and b.end <= a.end (inclusive upper bound); so
\* s.contains(s) is true.
C2_ContainsInclusive ==
    (op = "contains" /\ WellFormed(args[1]) /\ WellFormed(args[2]))
        => ret = Returned(/\ args[1].start <= args[2].start
                          /\ args[2].end <= args[1].end)

\* C3: for spans a and b with start <= end, a.cover(b) contains a and
\* contains b.
C3_CoverContainsOperands ==
    (op = "cover" /\ WellFormed(args[1]) /\ WellFormed(args[2]))
        => /\ ret # Panicked
           /\ contains(ret[1], args[1])
           /\ contains(ret[1], args[2])

\* C4 as stated: for spans a and b with start <= end and a.end <= b.start or
\* b.end <= a.start, a.intersect(b) is None.
C4_NoOverlapIsNone ==
    (/\ op = "intersect"
     /\ WellFormed(args[1]) /\ WellFormed(args[2])
     /\ (args[1].end <= args[2].start \/ args[2].end <= args[1].start))
        => ret = Returned(None)

\* C4 as amended: for spans a and b with start <= end that are separated,
\* a.end < b.start or b.end < a.start, a.intersect(b) is None.
C4_SeparatedIsNone ==
    (/\ op = "intersect"
     /\ WellFormed(args[1]) /\ WellFormed(args[2])
     /\ (args[1].end < args[2].start \/ args[2].end < args[1].start))
        => ret = Returned(None)

\* Two well-formed spans with a gap between them were intersected.
C4_Witness ==
    /\ op = "intersect"
    /\ WellFormed(args[1]) /\ WellFormed(args[2])
    /\ ~is_empty(args[1]) /\ ~is_empty(args[2])
    /\ args[2].end < args[1].start
    /\ ret = Returned(None)

\* C5: for spans a and b with start <= end, whenever
\* max(a.start, b.start) <= min(a.end, b.end), a.intersect(b) is Some of the
\* span {max of the starts, min of the ends}; spans sharing only a boundary
\* point give an empty span, not None; and s.intersect(s) is Some(s).
C5_IntersectIsOverlap ==
    (op = "intersect" /\ WellFormed(args[1]) /\ WellFormed(args[2]))
        => LET lo == Greatest({args[1].start, args[2].start})
               hi == Least({args[1].end, args[2].end})
           IN  /\ lo <= hi =>
                     ret = Returned(Some([start |-> lo, end |-> hi]))
               /\ args[1].end = args[2].start =>
                     ret = Returned(Some([start |-> args[1].end,
                                          end |-> args[1].end]))
               /\ args[1] = args[2] => ret = Returned(Some(args[1]))

\* Two non-empty spans sharing only a boundary point were intersected, and
\* the result is the empty span at that point.
C5_Witness ==
    /\ op = "intersect"
    /\ WellFormed(args[1]) /\ WellFormed(args[2])
    /\ ~is_empty(args[1]) /\ ~is_empty(args[2])
    /\ args[1].end = args[2].start
    /\ ret = Returned(Some(empty(args[1].end)))
    /\ a = empty(args[1].end)

\* C6: for a span s with start <= end and an offset p, s.contains_offset(p)
\* equals s.contains(Span::empty(p)) and is true exactly when
\* s.start <= p < s.end; the offset equal to s.end is excluded.
C6_ContainsOffsetHalfOpen ==
    (op = "contains_offset" /\ WellFormed(args[1]))
        => /\ ret = Returned(args[1].start <= args[2] /\ args[2] < args[1].end)
           /\ ret = Returned(contains(args[1], [start |-> args[2],
                                                end |-> args[2]]))
           /\ args[2] = args[1].end => ret = Returned(FALSE)

\* A non-empty span was asked for the offset equal to its end, and (in
\* another call) for an offset inside it.
C6_Witness ==
    /\ op = "contains_offset"
    /\ WellFormed(args[1]) /\ ~is_empty(args[1])
    /\ args[2] = args[1].end
    /\ ret = Returned(FALSE)
    /\ contains_offset(args[1], args[1].start) = TRUE

\* C7: for all spans a and b, a.cover(b) is the span {min of the starts, max
\* of the ends}; it never fails, a.cover(b) = b.cover(a) and s.cover(s) = s,
\* also for spans separated by a gap.
C7_CoverIsHull ==
    op = "cover"
        => /\ ret = Returned([start |-> Least({args[1].start, args[2].start}),
                              end |-> Greatest({args[1].end, args[2].end})])
           /\ ret = Returned(cover(args[2], args[1]))
           /\ args[1] = args[2] => ret = Returned(args[1])

\* Two non-empty spans with a gap between them were covered, the receiver
\* being the later one.
C7_Witness ==
    /\ op = "cover"
    /\ WellFormed(args[1]) /\ WellFormed(args[2])
    /\ ~is_empty(args[1]) /\ ~is_empty(args[2])
    /\ args[2].end < args[1].start
    /\ ret = Returned([start |-> args[2].start, end |-> args[1].end])
    /\ a = ret[1]

\* The kinds the claim C8 names.
OpeningBrackets ==
    { "TOKEN_LEFT_PARENTHESIS", "TOKEN_LEFT_BRACKET", "TOKEN_LEFT_CURLYBRACE" }

NumericLiterals == { "TOKEN_INTEGER", "TOKEN_FLOAT" }

StartTokens ==
    { "TOKEN_PATH", "TOKEN_IDENTIFIER", "TOKEN_IDENTIFIER_START",
      "TOKEN_STRING_START", "TOKEN_ISLAND_START" }

OperatorTokens ==
    { "TOKEN_LESS_PIPE", "TOKEN_PIPE_MORE", "TOKEN_AT", "TOKEN_PLUS_PLUS",
      "TOKEN_EQUAL_EQUAL_MORE", "TOKEN_LESS_EQUAL_EQUAL", "TOKEN_SLASH_SLASH",
      "TOKEN_PERIOD", "TOKEN_QUESTIONMARK", "TOKEN_EXCLAMATION_EQUAL",
      "TOKEN_EQUAL_EQUAL", "TOKEN_LESS_EQUAL", "TOKEN_LESS",
      "TOKEN_MORE_EQUAL", "TOKEN_MORE", "TOKEN_MINUS_MORE", "TOKEN_PLUS",
      "TOKEN_MINUS", "TOKEN_ASTERISK_ASTERISK", "TOKEN_ASTERISK",
      "TOKEN_SLASH", "TOKEN_LITERAL_AND", "TOKEN_LITERAL_OR",
      "TOKEN_LITERAL_NOT" }

NodeKindSet == { NodeKinds[i] : i \in 1 .. Len(NodeKinds) }

\* C8: is_argument(k) is true exactly for the error token, the opening
\* brackets, the integer and float literals and the path, identifier,
\* string and island start tokens; it is false for every other kind, every
\* operator token and every node kind included.
C8_IsArgumentExact ==
    op = "is_argument"
        => /\ ret = Returned(args[1] \in {"TOKEN_ERROR"} \cup OpeningBrackets
                                 \cup NumericLiterals \cup StartTokens)
           /\ args[1] \in OperatorTokens \cup NodeKindSet
                 => ret = Returned(FALSE)

\* is_argument was asked about the opening parenthesis and said yes.
C8_Witness ==
    /\ op = "is_argument"
    /\ args[1] = "TOKEN_LEFT_PARENTHESIS"
    /\ ret = Returned(TRUE)

\* C9: no kind satisfies both is_argument and is_trivia, and is_trivia is
\* true exactly for the whitespace and comment tokens.
C9_ArgumentTriviaDisjoint ==
    /\ op = "is_trivia"
        => /\ ret = Returned(args[1] \in {"TOKEN_WHITESPACE", "TOKEN_COMMENT"})
           /\ ~(ret[1] /\ is_argument(args[1]))
    /\ op = "is_argument"
        => ~(ret[1] /\ is_trivia(args[1]))

\* is_trivia was asked about a kind that is an argument start, and said no.
C9_Witness ==
    /\ op = "is_trivia"
    /\ is_argument(args[1])
    /\ ret = Returned(FALSE)

\* The calls that return a span.
SpanCalls == {"new", "at", "at_end", "empty", "up_to", "cover"}

\* C10: starting from spans built by the constructors within their
\* preconditions, every span obtained by any sequence of cover and
\* Some-valued intersect has start <= end, and is_empty() holds for it
\* exactly when start = end.
C10_WellFormedPreserved ==
    /\ WellFormed(a)
    /\ WellFormed(b)
    /\ op \in SpanCalls => (ret # Panicked /\ WellFormed(ret[1]))
    /\ (op = "intersect" /\ ret[1] # None) => WellFormed(ret[1][1])
    /\ op = "is_empty" => ret = Returned(args[1].start = args[1].end)

\* A span was intersected with a cover of two earlier spans, and the
\* result, a proper part of both, is the caller's current span.
C10_Witness ==
    /\ op = "intersect"
    /\ ret[1] # None
    /\ a = ret[1][1]
    /\ a # args[1] /\ a # args[2]
    /\ ~is_empty(a)
    /\ args[2].end - args[2].start > MaxOffset

====
